---- MODULE Spec2Model ----
(***************************************************************************)
(* The correlation engine of src/src/ws.rs (LibSqlClient): one connection,  *)
(* its request id counter, the pending table, the spawned read loop and the *)
(* four awaited calls send_hello, open_stream, execute_statement and        *)
(* send_ping.                                                               *)
(*                                                                          *)
(* Every call takes &mut self, so at most one call of a client is live at a *)
(* time; a call stops being live when it returns or when its future is      *)
(* dropped at one of its await points (writer.send(..).await, rx.await).    *)
(* The read loop is a separate tokio task and interleaves freely with the   *)
(* steps of the live call; what read.next() yields is chosen by the peer.   *)
(***************************************************************************)
EXTENDS Integers, Sequences, FiniteSets, TLC

\* ------------------------------------------------------------------ bounds
MaxCalls == 3      \* calls issued on the connection, the handshake included
MaxClock == 2      \* the readings of the clock run from 0 to MaxClock
MaxLen == 4        \* characters in the input of a tab
MaxTabs == 3       \* tabs open at a time
UsizeBits == 16    \* the width taken for usize, so that its values can be written
MaxQueries == 2    \* queries under way: sent to the worker, result not yet taken

\* --------------------------------------------------------------- constants
PING_REQ_ID == -1
HELLO_REQ_ID == 1
INITIAL_REQUEST_ID == 1
I32_MAX == 2147483647

Messages == {"invalid token"}
Results == {"r1", "r2"}

\* Option<T>
None == [some |-> FALSE]
Some(x) == [some |-> TRUE, v |-> x]
unwrap_or(o, d) == IF o.some THEN o.v ELSE d

\* ------------------------------------------------------------ ResponseType
Pong == [tag |-> "Pong"]
Error(m) == [tag |-> "Error", message |-> m]
HelloOk == [tag |-> "HelloOk"]
OpenStreamResp == [tag |-> "OpenStreamResp"]
ExecuteResp(r) == [tag |-> "ExecuteResp", result |-> r]

\* Result<T, E> of a call
Ok(x) == [tag |-> "Ok", val |-> x]
Err(e) == [tag |-> "Err", val |-> e]
Unit == "()"
Running == [tag |-> "Running"]

\* The errors a call can return.
TransportError == "transport error"
Canceled == "oneshot canceled"
UnexpectedHello == "Unexpected response for hello"
UnexpectedOpenStream == "Unexpected response for open_stream"
UnexpectedPing == "Unexpected response for ping"
UnexpectedExecute == "Unexpected response for execute_statement"

\* ---------------------------------------------------------- inbound frames
\* The JSON objects found under "response": the tag is the "type" member.
RawResponses ==
    {[type |-> "hello_ok"], [type |-> "open_stream"], [type |-> "Pong"]}
    \cup {[type |-> "execute", result |-> r] : r \in Results}
    \cup {[type |-> "Error", message |-> m] : m \in Messages}
    \cup {[type |-> "close_stream"]}            \* a tag the enum does not have
    \cup {[result |-> "r1"]}                    \* an object with no tag

\* serde's internally tagged decoding of ResponseType (tag = "type").
ResponseTypeFromJson(raw) ==
    IF "type" \notin DOMAIN raw THEN Err("missing field type")
    ELSE IF raw.type = "Pong" THEN Ok(Pong)
    ELSE IF raw.type = "Error" THEN Ok(Error(raw.message))
    ELSE IF raw.type = "hello_ok" THEN Ok(HelloOk)
    ELSE IF raw.type = "open_stream" THEN Ok(OpenStreamResp)
    ELSE IF raw.type = "execute" THEN Ok(ExecuteResp(raw.result))
    ELSE Err("unknown variant")

\* serde_json::from_str::<ResponseMsg>(&text)
from_str(text) ==
    IF ~text.json THEN Err("expected value")
    ELSE IF text.response.some /\ ResponseTypeFromJson(text.response.v).tag = "Err"
         THEN Err(ResponseTypeFromJson(text.response.v).val)
    ELSE Ok([ty |-> text.ty,
             request_id |-> text.request_id,
             response |-> IF text.response.some
                          THEN Some(ResponseTypeFromJson(text.response.v).val)
                          ELSE None,
             error |-> text.error])

Text(ty, id, response, error) ==
    [kind |-> "Text", json |-> TRUE, ty |-> ty, request_id |-> id,
     response |-> response, error |-> error]
Malformed ==
    [kind |-> "Text", json |-> FALSE, ty |-> "", request_id |-> None,
     response |-> None, error |-> None]
PongFrame == [kind |-> "Pong"]

\* The ids a server frame may carry: absent, the id of the pings, or one a
\* call can have.
ReplyIds == {None, Some(PING_REQ_ID)} \cup {Some(i) : i \in 1..MaxCalls}

\* The text frames the peer may send.
TextFrames ==
    {Text("hello_ok", i, None, None) : i \in ReplyIds}
    \cup {Text("response_error", i, None, e) :
            i \in ReplyIds, e \in {None} \cup {Some(m) : m \in Messages}}
    \cup {Text("response_ok", i, r, None) :
            i \in ReplyIds, r \in {None} \cup {Some(x) : x \in RawResponses}}
    \cup {Malformed}

\* ------------------------------------------------------------------- state
VARIABLES
    conn,        \* what connect has produced: "connecting", "ready", "failed"
    request_id,  \* LibSqlClient.request_id
    pending,     \* LibSqlClient.pending: request id -> the call whose tx it holds
    calls,       \* the calls made so far, in order; only the last can be live
    rx,          \* per call, its oneshot channel: empty, sent(value) or dropped
    writer,      \* the frames the outbound half (the SplitSink and the
                 \* transport under it) has taken, in order
    listener,    \* the read loop task: "running" or "stopped"
    got,         \* history: the inbound unit that resolved the last call's rx
    answered,    \* history: a reply for the last call's id was read after its write
    clock,       \* the monotonic clock Instant::now() reads
    stamp,       \* of the last call, a ping: now of send_ping, and as history
                 \* the clock when its frame was written and when the Pong
                 \* sent on its tx was read
    last,        \* history: the last cursor motion and where it started
    input_mode,  \* App.input_mode: "Normal" or "Insert"
    tabs,        \* App.tabs: per tab its name (the number in it), its input (a
                 \* sequence of characters), its char_index (counted from 0)
                 \* and its query_result
    selected_tab, \* App.selected_tab, counted from 0
    panicked,    \* the thread of App::run has panicked
    action_rx,   \* the channel of App.action_sender: the Actions sent and not
                 \* yet received by the worker, each with the tab it came from
                 \* as history
    result_rx,   \* the channel of App.res_recv: the results sent by the worker
                 \* and not yet taken by the run loop
    worker,      \* the spawned query task: waiting in recv, running the
                 \* query of an Action, or holding the result it is about to
                 \* send
    undecoded    \* history: whether the last text frame read failed to decode:
                 \* "none", "frame", or "reply" for an envelope with the id
                 \* of the awaiting call and a response tag the enum lacks

vars == <<conn, request_id, pending, calls, rx, writer, listener, got, answered,
          clock, stamp, last, input_mode, tabs, selected_tab, panicked,
          action_rx, result_rx, worker, undecoded>>

\* The state of the editor, which no step of the client touches.
editor == <<last, input_mode, tabs, selected_tab, panicked, action_rx, result_rx,
            worker>>

\* The queries sent and not yet answered: those in the channel to the
\* worker and the one the worker has taken.
queries == <<action_rx, worker>>

\* What no cursor motion touches.
app == <<input_mode, selected_tab, panicked>>

\* let selected_tab = &mut self.tabs[self.selected_tab], and its fields
SelectedTab == tabs[selected_tab + 1]
input == SelectedTab.input
char_index == SelectedTab.char_index

Empty == [st |-> "empty"]
Dropped == [st |-> "dropped"]
Sent(v) == [st |-> "sent", val |-> v]
NoFrame == [kind |-> "none"]
NoStamp == [sent |-> None, now |-> None, pong |-> None]
NoMove == [op |-> "none"]

\* The worker task suspended in action_rx.recv().await
Receiving == [pc |-> "recv"]

\* Tab::new(name): the name is "Query n", kept as n.
QueryNone == [kind |-> "None"]
Tab(n) == [name |-> n, input |-> <<>>, char_index |-> 0, query_result |-> QueryNone]

\* The App as main builds it: input_mode the default, no tab, then new_tab().
AppStart ==
    /\ input_mode = "Normal"
    /\ tabs = <<Tab(1)>>
    /\ selected_tab = 0
    /\ panicked = FALSE
    /\ action_rx = <<>>
    /\ result_rx = <<>>
    /\ worker = Receiving

Cur == Len(calls)
Live(c) == calls[c].pc \in {"send", "flush", "insert", "now", "await"}

\* Mutant: the counter is read but not advanced.
fetch_add_load(x) == x

\* AtomicI32::fetch_add(1): wraps around on overflow.
fetch_add(x) == IF x = I32_MAX THEN -I32_MAX - 1 ELSE x + 1

\* next_request_id returns the value the counter held before the increment.
next_request_id(counter) == counter

\* ---------------------------------------------------------------- the calls
\* Mutant: any value received counts as the acknowledgement.
send_hello_result_any(slot) ==
    IF slot.st = "dropped" THEN Err(Canceled) ELSE Ok(Unit)

\* Mutant: the Error arm is missing, the server's message is lost.
execute_statement_result_generic(slot) ==
    IF slot.st = "dropped" THEN Err(Canceled)
    ELSE IF slot.val.tag = "ExecuteResp" THEN Ok(slot.val.result)
    ELSE Err(UnexpectedExecute)

\* What each call makes of the value its rx resolved to (rx.await? comes first).
send_hello_result(slot) ==
    IF slot.st = "dropped" THEN Err(Canceled)
    ELSE IF slot.val = HelloOk THEN Ok(Unit)
    ELSE Err(UnexpectedHello)

\* Mutant: open_stream takes any value received for its acknowledgement.
open_stream_result_any(slot) ==
    IF slot.st = "dropped" THEN Err(Canceled) ELSE Ok(Unit)

open_stream_result(slot) ==
    IF slot.st = "dropped" THEN Err(Canceled)
    ELSE IF slot.val = OpenStreamResp THEN Ok(Unit)
    ELSE Err(UnexpectedOpenStream)

\* Instant::elapsed: the clock now minus the instant.
elapsed(instant) == clock - instant

\* now.elapsed().as_millis() as f32, for the Pong arm.
send_ping_result(slot) ==
    IF slot.st = "dropped" THEN Err(Canceled)
    ELSE IF slot.val = Pong THEN Ok(elapsed(stamp.now.v))
    ELSE Err(UnexpectedPing)

execute_statement_result(slot) ==
    IF slot.st = "dropped" THEN Err(Canceled)
    ELSE IF slot.val.tag = "ExecuteResp" THEN Ok(slot.val.result)
    ELSE IF slot.val.tag = "Error" THEN Err(slot.val.message)
    ELSE Err(UnexpectedExecute)

\* Mutant: connect hands out the client whatever send_hello returned.
connect_result_always(hello) == "ready"

\* connect: client.send_hello(jwt).await?; Ok(client)
connect_result(hello) == IF hello.tag = "Ok" THEN "ready" ELSE "failed"

NewCall(kind, id) == [kind |-> kind, id |-> id, pc |-> "send", out |-> Running]

\* The outbound frames. The jwt, the stream id and the sql text travel in
\* them and are read by no step of the client, so they are left out.
HelloMsg == [kind |-> "hello"]
OpenStreamReq(id) == [kind |-> "open_stream", request_id |-> id]
ExecuteReq(id) == [kind |-> "execute", request_id |-> id]
PingMessage == [kind |-> "ping"]

\* The request frame of a call.
Request(call) ==
    IF call.kind = "hello" THEN HelloMsg
    ELSE IF call.kind = "open_stream" THEN OpenStreamReq(call.id)
    ELSE IF call.kind = "execute" THEN ExecuteReq(call.id)
    ELSE PingMessage

\* A call begins: its future borrows the client.
Begin(kind, id) ==
    /\ calls' = Append(calls, NewCall(kind, id))
    /\ rx' = Append(rx, Empty)
    /\ got' = NoFrame
    /\ answered' = FALSE
    /\ stamp' = NoStamp
    /\ clock' = clock
    /\ undecoded' = "none"
    /\ UNCHANGED editor

\* writer.send(frame).await?, first part (the feed of SinkExt::send): the
\* frame is handed to the sink (taken), and the send goes on to its flush,
\* or the sink fails before it has the frame and the call returns the error.
Feed(kind, frame, taken) ==
    /\ calls[Cur].kind = kind /\ calls[Cur].pc = "send"
    /\ IF taken
       THEN /\ writer' = Append(writer, frame)
            /\ calls' = [calls EXCEPT ![Cur].pc = "flush"]
            /\ conn' = conn
       ELSE /\ writer' = writer
            /\ calls' = [calls EXCEPT ![Cur].pc = "done",
                                      ![Cur].out = Err(TransportError)]
            /\ conn' = IF kind = "hello" THEN connect_result(Err(TransportError))
                       ELSE conn
    /\ stamp' = IF kind = "ping" /\ taken THEN [stamp EXCEPT !.sent = Some(clock)]
                ELSE stamp
    /\ UNCHANGED <<request_id, pending, rx, listener, got, answered, clock, editor, undecoded>>

\* Mutant: after a failed flush the frame is written once more before the
\* error is returned.
Flush_resend(kind, ok) ==
    /\ calls[Cur].kind = kind /\ calls[Cur].pc = "flush"
    /\ IF ok
       THEN /\ calls' = [calls EXCEPT ![Cur].pc = "insert"]
            /\ conn' = conn
            /\ writer' = writer
       ELSE /\ calls' = [calls EXCEPT ![Cur].pc = "done",
                                      ![Cur].out = Err(TransportError)]
            /\ conn' = IF kind = "hello" THEN connect_result(Err(TransportError))
                       ELSE conn
            /\ writer' = Append(writer, Request(calls[Cur]))
    /\ UNCHANGED <<request_id, pending, rx, listener, got, answered, clock,
                   stamp, editor, undecoded>>

\* writer.send(frame).await?, second part (the flush): the sink has the
\* frame and the call is suspended in the send, the read loop running
\* meanwhile. The send completes (ok) and the call goes on, or it fails and
\* the call returns the error; the frame stays with the sink either way and
\* goes out ahead of the next one.
Flush(kind, ok) ==
    /\ calls[Cur].kind = kind /\ calls[Cur].pc = "flush"
    /\ IF ok
       THEN /\ calls' = [calls EXCEPT ![Cur].pc = "insert"]
            /\ conn' = conn
       ELSE /\ calls' = [calls EXCEPT ![Cur].pc = "done",
                                      ![Cur].out = Err(TransportError)]
            /\ conn' = IF kind = "hello" THEN connect_result(Err(TransportError))
                       ELSE conn
    /\ UNCHANGED <<request_id, pending, rx, writer, listener, got, answered,
                   clock, stamp, editor, undecoded>>

\* Mutant: the insert keeps a tx already stored under the key
\* (entry().or_insert), the new tx is dropped.
Insert_keep(kind, key) ==
    /\ calls[Cur].kind = kind /\ calls[Cur].pc = "insert"
    /\ IF key \in DOMAIN pending
       THEN /\ pending' = pending
            /\ rx' = [rx EXCEPT ![Cur] = Dropped]
       ELSE /\ pending' = [k \in DOMAIN pending \cup {key} |->
                             IF k = key THEN Cur ELSE pending[k]]
            /\ rx' = rx
    /\ calls' = [calls EXCEPT ![Cur].pc = IF kind = "ping" THEN "now" ELSE "await"]
    /\ UNCHANGED <<conn, request_id, writer, listener, got, answered, clock,
                   stamp, editor, undecoded>>

\* let (tx, rx) = oneshot::channel(); self.pending.insert(key, tx);
\* DashMap::insert replaces a tx already stored under the key and the old tx
\* is dropped: its channel is closed. Its receiver belongs to an earlier
\* call, whose future is gone. open_stream, execute_statement and send_hello
\* go on to rx.await, send_ping reads the clock first.
Insert(kind, key) ==
    /\ calls[Cur].kind = kind /\ calls[Cur].pc = "insert"
    /\ pending' = [k \in DOMAIN pending \cup {key} |->
                     IF k = key THEN Cur ELSE pending[k]]
    /\ rx' = IF key \in DOMAIN pending
             THEN [rx EXCEPT ![pending[key]] = Dropped]
             ELSE rx
    /\ calls' = [calls EXCEPT ![Cur].pc = IF kind = "ping" THEN "now" ELSE "await"]
    /\ UNCHANGED <<conn, request_id, writer, listener, got, answered, clock,
                   stamp, editor, undecoded>>

\* Mutant: a call that returns an error takes the connection down with it.
Return_fatal(kind, value) ==
    /\ calls[Cur].kind = kind /\ calls[Cur].pc = "await"
    /\ rx[Cur] # Empty
    /\ calls' = [calls EXCEPT ![Cur].pc = "done", ![Cur].out = value]
    /\ conn' = IF value.tag = "Err" THEN "failed" ELSE "ready"
    /\ UNCHANGED <<request_id, pending, rx, writer, listener, got, answered,
                   clock, stamp, editor, undecoded>>

\* rx.await completes once the tx has sent or was dropped; the call returns.
Return(kind, value) ==
    /\ calls[Cur].kind = kind /\ calls[Cur].pc = "await"
    /\ rx[Cur] # Empty
    /\ calls' = [calls EXCEPT ![Cur].pc = "done", ![Cur].out = value]
    /\ conn' = IF kind = "hello" THEN connect_result(value) ELSE conn
    /\ UNCHANGED <<request_id, pending, rx, writer, listener, got, answered,
                   clock, stamp, editor, undecoded>>

\* send_hello --------------------------------------------------------------
send_hello_send ==
    /\ \E taken \in BOOLEAN : Feed("hello", HelloMsg, taken)

send_hello_flush ==
    /\ \E ok \in BOOLEAN : Flush("hello", ok)

send_hello_insert ==
    /\ Insert("hello", HELLO_REQ_ID)

send_hello_await ==
    /\ Return("hello", send_hello_result(rx[Cur]))

\* Mutant: the calls take a shared reference, a call can begin while another
\* is under way.
CanCall_shared ==
    /\ conn = "ready"
    /\ Cur < MaxCalls

\* A new call needs the client connect returned and no call borrowing it.
CanCall ==
    /\ conn = "ready"
    /\ Cur < MaxCalls
    /\ ~Live(Cur)

\* open_stream -------------------------------------------------------------
open_stream_begin ==
    /\ CanCall
    /\ Begin("open_stream", next_request_id(request_id))
    /\ request_id' = fetch_add(request_id)
    /\ UNCHANGED <<conn, pending, writer, listener>>

open_stream_send ==
    /\ \E taken \in BOOLEAN : Feed("open_stream", OpenStreamReq(calls[Cur].id), taken)

open_stream_flush ==
    /\ \E ok \in BOOLEAN : Flush("open_stream", ok)

open_stream_insert ==
    /\ Insert("open_stream", calls[Cur].id)

open_stream_await ==
    /\ Return("open_stream", open_stream_result(rx[Cur]))

\* execute_statement -------------------------------------------------------
execute_statement_begin ==
    /\ CanCall
    /\ Begin("execute", next_request_id(request_id))
    /\ request_id' = fetch_add(request_id)
    /\ UNCHANGED <<conn, pending, writer, listener>>

execute_statement_send ==
    /\ \E taken \in BOOLEAN : Feed("execute", ExecuteReq(calls[Cur].id), taken)

execute_statement_flush ==
    /\ \E ok \in BOOLEAN : Flush("execute", ok)

execute_statement_insert ==
    /\ Insert("execute", calls[Cur].id)

execute_statement_await ==
    /\ Return("execute", execute_statement_result(rx[Cur]))

\* send_ping ---------------------------------------------------------------
send_ping_begin ==
    /\ CanCall
    /\ Begin("ping", PING_REQ_ID)
    /\ UNCHANGED <<conn, request_id, pending, writer, listener>>

send_ping_send ==
    /\ \E taken \in BOOLEAN : Feed("ping", PingMessage, taken)

send_ping_flush ==
    /\ \E ok \in BOOLEAN : Flush("ping", ok)

send_ping_insert ==
    /\ Insert("ping", PING_REQ_ID)

\* let now = Instant::now();
send_ping_now ==
    /\ calls[Cur].kind = "ping" /\ calls[Cur].pc = "now"
    /\ calls' = [calls EXCEPT ![Cur].pc = "await"]
    /\ stamp' = [stamp EXCEPT !.now = Some(clock)]
    /\ UNCHANGED <<conn, request_id, pending, rx, writer, listener, got,
                   answered, clock, editor, undecoded>>

send_ping_await ==
    /\ Return("ping", send_ping_result(rx[Cur]))

\* Mutant: dropping a call tells the server to abandon the request.
cancel_notify ==
    /\ calls[Cur].pc \in {"send", "flush", "await"}
    /\ calls' = [calls EXCEPT ![Cur].pc = "cancelled"]
    /\ conn' = IF calls[Cur].kind = "hello" THEN "failed" ELSE conn
    /\ writer' = Append(writer, [kind |-> "cancel", request_id |-> calls[Cur].id])
    /\ UNCHANGED <<request_id, pending, rx, listener, got, answered,
                   clock, stamp, editor, undecoded>>

\* The caller drops the future of the live call at one of its await points:
\* while the send is pending, before the sink has the frame ("send") or
\* after ("flush"), or while it waits for the reply. The drop writes
\* nothing and takes nothing back: a frame not yet handed over goes with
\* the future, a frame the sink has stays with it. The rx goes with the
\* future, a tx already inserted stays in the table. Dropping the connect
\* future yields no client.
cancel ==
    /\ calls[Cur].pc \in {"send", "flush", "await"}
    /\ calls' = [calls EXCEPT ![Cur].pc = "cancelled"]
    /\ conn' = IF calls[Cur].kind = "hello" THEN "failed" ELSE conn
    /\ UNCHANGED <<request_id, pending, rx, writer, listener, got, answered,
                   clock, stamp, editor, undecoded>>

\* ------------------------------------------------------------ the read loop
\* Mutant: the frame's request id is not looked at.
frame_request_id_ignored(msg) == HELLO_REQ_ID

\* request_id of a decoded ResponseMsg
frame_request_id(msg) == unwrap_or(msg.request_id, HELLO_REQ_ID)

\* What the read loop sends on the tx it removed: Some(value), or None when
\* the tx is dropped without a send.
classify(msg) ==
    IF msg.ty = "hello_ok" THEN Some(HelloOk)
    ELSE IF msg.ty = "response_error"
         THEN IF msg.error.some THEN Some(Error(msg.error.v)) ELSE None
    ELSE msg.response

\* The receiver of the tx of call c is still there.
Awaited(c) == c = Cur /\ calls[c].pc \in {"now", "await"} /\ rx[c] = Empty

\* The request of the last call is on the wire and the call has not returned.
Outstanding == calls[Cur].pc \in {"flush", "insert", "now", "await"}

\* Mutant: the whole table is emptied when an entry is taken out.
RemoveAndDeliver_clear(key, delivery, unit) ==
    /\ answered' = (answered \/ (Outstanding /\ key = calls[Cur].id))
    /\ IF key \in DOMAIN pending
       THEN /\ pending' = <<>>
            /\ IF Awaited(pending[key])
               THEN /\ rx' = [rx EXCEPT ![pending[key]] =
                                IF delivery.some THEN Sent(delivery.v) ELSE Dropped]
                    /\ got' = unit
                    /\ stamp' = IF /\ delivery = Some(Pong)
                                   /\ calls[pending[key]].kind = "ping"
                                THEN [stamp EXCEPT !.pong = Some(clock)]
                                ELSE stamp
               ELSE UNCHANGED <<rx, got, stamp>>
       ELSE UNCHANGED <<pending, rx, got, stamp>>

\* Mutant: a tx that is not sent on is kept alive instead of dropped.
RemoveAndDeliver_leak(key, delivery, unit) ==
    /\ answered' = (answered \/ (Outstanding /\ key = calls[Cur].id))
    /\ IF key \in DOMAIN pending
       THEN /\ pending' = [k \in DOMAIN pending \ {key} |-> pending[k]]
            /\ IF Awaited(pending[key]) /\ delivery.some
               THEN /\ rx' = [rx EXCEPT ![pending[key]] = Sent(delivery.v)]
                    /\ got' = unit
                    /\ stamp' = IF /\ delivery = Some(Pong)
                                   /\ calls[pending[key]].kind = "ping"
                                THEN [stamp EXCEPT !.pong = Some(clock)]
                                ELSE stamp
               ELSE UNCHANGED <<rx, got, stamp>>
       ELSE UNCHANGED <<pending, rx, got, stamp>>

\* pending_responses.remove(&key), then tx.send(value) or the drop of tx. A
\* send to a receiver that is gone returns Err, which the loop ignores.
RemoveAndDeliver(key, delivery, unit) ==
    /\ answered' = (answered \/ (Outstanding /\ key = calls[Cur].id))
    /\ IF key \in DOMAIN pending
       THEN /\ pending' = [k \in DOMAIN pending \ {key} |-> pending[k]]
            /\ IF Awaited(pending[key])
               THEN /\ rx' = [rx EXCEPT ![pending[key]] =
                                IF delivery.some THEN Sent(delivery.v) ELSE Dropped]
                    /\ got' = unit
                    /\ stamp' = IF /\ delivery = Some(Pong)
                                   /\ calls[pending[key]].kind = "ping"
                                THEN [stamp EXCEPT !.pong = Some(clock)]
                                ELSE stamp
               ELSE UNCHANGED <<rx, got, stamp>>
       ELSE UNCHANGED <<pending, rx, got, stamp>>

\* Mutant: a reply that matches no entry is taken for a protocol violation
\* and ends the loop.
listener_text_frame_strict(text) ==
    /\ listener = "running"
    /\ UNCHANGED <<conn, request_id, calls, writer, clock, editor>>
    /\ LET parsed == from_str(text) IN
         IF parsed.tag = "Ok"
         THEN /\ RemoveAndDeliver(frame_request_id(parsed.val),
                                  classify(parsed.val), text)
              /\ listener' = IF frame_request_id(parsed.val) \in DOMAIN pending
                             THEN "running" ELSE "stopped"
         ELSE UNCHANGED <<pending, rx, got, answered, listener, stamp>>

\* Mutant: a frame that does not decode ends the loop.
listener_text_frame_fatal(text) ==
    /\ listener = "running"
    /\ UNCHANGED <<conn, request_id, calls, writer, clock, editor>>
    /\ LET parsed == from_str(text) IN
         IF parsed.tag = "Ok"
         THEN /\ RemoveAndDeliver(frame_request_id(parsed.val),
                                  classify(parsed.val), text)
              /\ listener' = listener
         ELSE /\ listener' = "stopped"
              /\ UNCHANGED <<pending, rx, got, answered, stamp>>

\* Ok(Message::Text(text)), for one text frame
listener_text_frame(text) ==
    /\ listener = "running"
    /\ UNCHANGED <<conn, request_id, calls, writer, listener, clock, editor>>
    /\ LET parsed == from_str(text) IN
         IF parsed.tag = "Ok"
         THEN RemoveAndDeliver(frame_request_id(parsed.val),
                               classify(parsed.val), text)
         ELSE UNCHANGED <<pending, rx, got, answered, stamp>>

\* Ok(Message::Text(text))
listener_text ==
    /\ \E text \in TextFrames : listener_text_frame(text)
    /\ UNCHANGED undecoded

\* What the history keeps of a text frame read.
Undecoded(text) ==
    IF from_str(text).tag = "Ok" THEN "none"
    ELSE IF /\ from_str(text).val = "unknown variant"
            /\ Awaited(Cur)
            /\ unwrap_or(text.request_id, HELLO_REQ_ID) = calls[Cur].id
            /\ calls[Cur].id \in DOMAIN pending
            /\ pending[calls[Cur].id] = Cur
         THEN "reply"
    ELSE "frame"

\* Ok(Message::Text(text)), with the history of decode failures kept.
listener_text_traced ==
    /\ \E text \in TextFrames :
         /\ listener_text_frame(text)
         /\ undecoded' = Undecoded(text)

\* Mutant: a Pong is taken for the reply to the handshake.
listener_pong_hello ==
    /\ listener = "running"
    /\ RemoveAndDeliver(HELLO_REQ_ID, Some(Pong), PongFrame)
    /\ UNCHANGED <<conn, request_id, calls, writer, listener, clock, editor, undecoded>>

\* Ok(Message::Pong(_))
listener_pong ==
    /\ listener = "running"
    /\ RemoveAndDeliver(PING_REQ_ID, Some(Pong), PongFrame)
    /\ UNCHANGED <<conn, request_id, calls, writer, listener, clock, editor, undecoded>>

\* Ok(other) that is no Pong (Binary, Ping, Frame): printed, nothing else.
listener_other ==
    /\ listener = "running"
    /\ UNCHANGED vars

\* Ok(Message::Close(frame)), Err(e), or the end of the stream: the loop ends.
listener_close ==
    /\ listener = "running"
    /\ listener' = "stopped"
    /\ UNCHANGED <<conn, request_id, pending, calls, rx, writer, got, answered,
                   clock, stamp, editor, undecoded>>

\* Time passes while a ping is under way.
tick ==
    /\ calls[Cur].kind = "ping" /\ Live(Cur)
    /\ clock < MaxClock
    /\ clock' = clock + 1
    /\ UNCHANGED <<conn, request_id, pending, calls, rx, writer, listener, got,
                   answered, stamp, editor, undecoded>>

\* ----------------------------------------------------------- specification
\* LibSqlClient::connect: the client is built, the read loop spawned, and
\* send_hello is about to write.
Init ==
    /\ conn = "connecting"
    /\ request_id = INITIAL_REQUEST_ID
    /\ pending = <<>>
    /\ calls = <<NewCall("hello", HELLO_REQ_ID)>>
    /\ rx = <<Empty>>
    /\ writer = <<>>
    /\ listener = "running"
    /\ got = NoFrame
    /\ answered = FALSE
    /\ clock = 0
    /\ stamp = NoStamp
    /\ last = NoMove
    /\ AppStart
    /\ undecoded = "none"

CallerStep ==
    \/ send_hello_send
    \/ send_hello_flush
    \/ send_hello_insert
    \/ send_hello_await
    \/ open_stream_send
    \/ open_stream_flush
    \/ open_stream_insert
    \/ open_stream_await
    \/ execute_statement_send
    \/ execute_statement_flush
    \/ execute_statement_insert
    \/ execute_statement_await
    \/ send_ping_send
    \/ send_ping_flush
    \/ send_ping_insert
    \/ send_ping_now
    \/ send_ping_await

Next ==
    \/ send_hello_send
    \/ send_hello_flush
    \/ send_hello_insert
    \/ send_hello_await
    \/ open_stream_begin
    \/ open_stream_send
    \/ open_stream_flush
    \/ open_stream_insert
    \/ open_stream_await
    \/ execute_statement_begin
    \/ execute_statement_send
    \/ execute_statement_flush
    \/ execute_statement_insert
    \/ execute_statement_await
    \/ send_ping_begin
    \/ send_ping_send
    \/ send_ping_flush
    \/ send_ping_insert
    \/ send_ping_now
    \/ send_ping_await
    \/ cancel
    \/ listener_text
    \/ listener_pong
    \/ listener_other
    \/ listener_close

Spec == Init /\ [][Next]_vars

\* The runtime keeps polling a call that can make progress, and the read loop
\* task; what the peer sends, and when, stays free.
FairSpec == Spec /\ WF_vars(CallerStep)

\* The same program with the clock running.
TimedNext == Next \/ tick
TimedSpec == Init /\ [][TimedNext]_vars

\* The same program with the history of decode failures kept.
TracedNext ==
    \/ send_hello_send
    \/ send_hello_flush
    \/ send_hello_insert
    \/ send_hello_await
    \/ open_stream_begin
    \/ open_stream_send
    \/ open_stream_flush
    \/ open_stream_insert
    \/ open_stream_await
    \/ execute_statement_begin
    \/ execute_statement_send
    \/ execute_statement_flush
    \/ execute_statement_insert
    \/ execute_statement_await
    \/ send_ping_begin
    \/ send_ping_send
    \/ send_ping_flush
    \/ send_ping_insert
    \/ send_ping_now
    \/ send_ping_await
    \/ cancel
    \/ listener_text_traced
    \/ listener_pong
    \/ listener_other
    \/ listener_close
TracedSpec == Init /\ [][TracedNext]_vars

\* ---------------------------------------------------------------- the editor
\* The characters of the inputs: a letter, a digit, the underscore, a
\* blank, the newline Enter inserts and a punctuation mark.
Chars == {"a", "1", "_", " ", "\n", ";"}

\* char::is_whitespace, char::is_alphanumeric
is_whitespace(c) == c \in {" ", "\n"}
is_alphanumeric(c) == c \in {"a", "1"}

\* App::is_word_char
is_word_char(c) == is_alphanumeric(c) \/ c = "_"

\* chars[idx] of a Vec<char>, indexed from 0
At(chars, idx) == chars[idx + 1]

\* while idx < limit && chars[idx].is_whitespace() { idx += 1 }
RECURSIVE skip_whitespace(_, _, _)
skip_whitespace(chars, idx, limit) ==
    IF idx < limit /\ is_whitespace(At(chars, idx))
    THEN skip_whitespace(chars, idx + 1, limit)
    ELSE idx

\* while idx < limit && is_word_char(chars[idx]) { idx += 1 }
RECURSIVE skip_word(_, _, _)
skip_word(chars, idx, limit) ==
    IF idx < limit /\ is_word_char(At(chars, idx))
    THEN skip_word(chars, idx + 1, limit)
    ELSE idx

\* while idx < limit && !chars[idx].is_whitespace() && !is_word_char(chars[idx])
RECURSIVE skip_other(_, _, _)
skip_other(chars, idx, limit) ==
    IF idx < limit /\ ~is_whitespace(At(chars, idx)) /\ ~is_word_char(At(chars, idx))
    THEN skip_other(chars, idx + 1, limit)
    ELSE idx

\* Mutant: the whitespace after the token is not skipped.
move_next_index_no_skip(chars, index) ==
    IF index >= Len(chars) THEN index
    ELSE LET idx == skip_whitespace(chars, index, Len(chars)) IN
         IF idx >= Len(chars) THEN idx
         ELSE IF is_word_char(At(chars, idx))
              THEN skip_word(chars, idx, Len(chars) - 1)
              ELSE skip_other(chars, idx, Len(chars) - 1)

\* App::move_next: the value char_index has afterwards.
move_next_index(chars, index) ==
    IF index >= Len(chars) THEN index
    ELSE LET idx == skip_whitespace(chars, index, Len(chars)) IN
         IF idx >= Len(chars) THEN idx
         ELSE LET end == IF is_word_char(At(chars, idx))
                         THEN skip_word(chars, idx, Len(chars) - 1)
                         ELSE skip_other(chars, idx, Len(chars) - 1)
              IN skip_whitespace(chars, end, Len(chars) - 1)

\* The variables of the client, which no key handler touches.
client == <<conn, request_id, pending, calls, rx, writer, listener, got,
            answered, clock, stamp, undecoded>>

\* The run loop takes key events until the thread panics.
Handling(mode) == ~panicked /\ input_mode = mode

\* The top of the next turn of the run loop, which follows the handling of
\* a key at once: while let Ok(res) = self.res_recv.try_recv() assigns every
\* result that is there to self.tabs[self.selected_tab] in turn, the last
\* one stays. ts is what the handler made of the tabs, results what the
\* channel holds. A handler that panicked has no next turn; with
\* selected_tab out of bounds the first result is taken and the indexing
\* panics.
try_recv(ts, results) ==
    /\ tabs' = IF ~panicked' /\ results # <<>>
               THEN [ts EXCEPT ![selected_tab' + 1].query_result =
                                   results[Len(results)]]
               ELSE ts
    /\ result_rx' = IF ~panicked' THEN <<>>
                    ELSE IF results # <<>> /\ selected_tab' >= Len(ts)
                         THEN Tail(results)
                         ELSE results

\* selected_tab.char_index = idx
WithCursor(idx) == [tabs EXCEPT ![selected_tab + 1].char_index = idx]

\* KeyCode::Char('w') in normal mode
move_next ==
    /\ Handling("Normal")
    /\ last' = [op |-> "move_next", from |-> char_index]
    /\ UNCHANGED <<client, queries, app>>
    /\ try_recv(WithCursor(move_next_index(input, char_index)), result_rx)

\* while idx > 0 && chars[idx].is_whitespace() { idx -= 1 }
RECURSIVE back_whitespace(_, _)
back_whitespace(chars, idx) ==
    IF idx > 0 /\ is_whitespace(At(chars, idx))
    THEN back_whitespace(chars, idx - 1)
    ELSE idx

\* while idx > 0 && is_word_char(chars[idx]) { idx -= 1 }
RECURSIVE back_word(_, _)
back_word(chars, idx) ==
    IF idx > 0 /\ is_word_char(At(chars, idx))
    THEN back_word(chars, idx - 1)
    ELSE idx

\* while idx > 0 && !chars[idx].is_whitespace() && !is_word_char(chars[idx])
RECURSIVE back_other(_, _)
back_other(chars, idx) ==
    IF idx > 0 /\ ~is_whitespace(At(chars, idx)) /\ ~is_word_char(At(chars, idx))
    THEN back_other(chars, idx - 1)
    ELSE idx

\* Mutant: the step back onto the first character of the token is left out.
move_last_index_no_step(chars, index) ==
    IF index = 0 THEN index
    ELSE LET idx == back_whitespace(chars, index - 1) IN
         IF idx = 0 /\ ~is_whitespace(At(chars, idx)) THEN idx
         ELSE IF is_word_char(At(chars, idx))
              THEN back_word(chars, idx)
              ELSE back_other(chars, idx)

\* App::move_last: the value char_index has afterwards. It is called with
\* 0 <= index <= chars.len().
move_last_index(chars, index) ==
    IF index = 0 THEN index
    ELSE LET idx == back_whitespace(chars, index - 1) IN
         IF idx = 0 /\ ~is_whitespace(At(chars, idx)) THEN idx
         ELSE IF is_word_char(At(chars, idx))
              THEN LET b == back_word(chars, idx) IN
                   IF ~is_word_char(At(chars, b)) /\ b < Len(chars) - 1
                   THEN b + 1 ELSE b
              ELSE LET b == back_other(chars, idx) IN
                   IF (is_whitespace(At(chars, b)) \/ is_word_char(At(chars, b)))
                      /\ b < Len(chars) - 1
                   THEN b + 1 ELSE b

\* KeyCode::Char('b') in normal mode. With the cursor beyond the input the
\* first chars[idx] is out of bounds.
move_last ==
    /\ Handling("Normal")
    /\ panicked' = (char_index > Len(input))
    /\ last' = [op |-> "move_last", from |-> char_index]
    /\ UNCHANGED <<client, queries, input_mode, selected_tab>>
    /\ try_recv(IF char_index > Len(input) THEN tabs
                ELSE WithCursor(move_last_index(input, char_index)),
                result_rx)

\* The inputs of at most MaxLen characters.
Inputs == UNION {[1..n -> Chars] : n \in 0..MaxLen}

\* A tab holding some input, the cursor on one of its characters or behind
\* the last one; the client as connect leaves it.
EditorInit ==
    /\ conn = "connecting"
    /\ request_id = INITIAL_REQUEST_ID
    /\ pending = <<>>
    /\ calls = <<NewCall("hello", HELLO_REQ_ID)>>
    /\ rx = <<Empty>>
    /\ writer = <<>>
    /\ listener = "running"
    /\ got = NoFrame
    /\ answered = FALSE
    /\ clock = 0
    /\ stamp = NoStamp
    /\ \E text \in Inputs, idx \in 0..MaxLen :
         /\ idx <= Len(text)
         /\ tabs = <<[Tab(1) EXCEPT !.input = text, !.char_index = idx]>>
    /\ last = NoMove
    /\ input_mode = "Normal"
    /\ selected_tab = 0
    /\ panicked = FALSE
    /\ action_rx = <<>>
    /\ result_rx = <<>>
    /\ worker = Receiving
    /\ undecoded = "none"

EditorNext ==
    \/ move_next
    \/ move_last

EditorSpec == EditorInit /\ [][EditorNext]_vars

\* ------------------------------------------------------------------ the keys
\* usize::MAX, and usize subtraction in a build without overflow checks
USIZE_MAX == 2^UsizeBits - 1
wrapping_sub(a, b) == (a - b + 2^UsizeBits) % 2^UsizeBits

\* The characters typed in insert mode: a word character and another one.
KeyChars == {"a", ";"}

\* The characters held by all tabs together.
RECURSIVE TotalLen(_)
TotalLen(ts) == IF ts = <<>> THEN 0 ELSE Len(Head(ts).input) + TotalLen(Tail(ts))

\* Vec::remove(index), String::remove(idx): the elements behind move up.
remove(seq, index) == SubSeq(seq, 1, index) \o SubSeq(seq, index + 2, Len(seq))

\* String::insert(idx, ch)
insert(seq, idx, ch) == SubSeq(seq, 1, idx) \o <<ch>> \o SubSeq(seq, idx + 1, Len(seq))

\* selected_tab.input and selected_tab.char_index after an edit
WithInput(text, idx) ==
    [tabs EXCEPT ![selected_tab + 1].input = text,
                 ![selected_tab + 1].char_index = idx]

\* The draw of the next turn of the loop indexes self.tabs[self.selected_tab]
\* (render_query, render_results): out of bounds it panics.
draw_panics(ts, sel) == sel >= Len(ts)

\* (CONTROL, Char('n'))
new_tab ==
    /\ Handling("Normal")
    /\ Len(tabs) < MaxTabs
    /\ selected_tab' = Len(tabs)
    /\ last' = NoMove
    /\ UNCHANGED <<client, queries, input_mode, panicked>>
    /\ try_recv(Append(tabs, Tab(Len(tabs) + 1)), result_rx)

\* for (i, tab) in self.tabs.iter_mut().enumerate(): tab.name = "Query i+1"
update_tabs(ts) == [i \in 1..Len(ts) |-> [ts[i] EXCEPT !.name = i]]

\* History: the index a tab has once the tab at index closed is removed;
\* None for the removed tab itself.
Reindex(from, closed) ==
    IF ~from.some THEN from
    ELSE IF from.v = closed THEN None
    ELSE IF from.v > closed THEN Some(from.v - 1)
    ELSE from

\* History: the tabs a sequence of queries or results came from, followed
\* through the removal of the tab at index closed.
Followed(seq, closed) ==
    [i \in 1..Len(seq) |-> [seq[i] EXCEPT !.from = Reindex(@, closed)]]

\* The same for the results the tabs hold.
FollowedTabs(ts, closed) ==
    [i \in 1..Len(ts) |->
        IF ts[i].query_result = QueryNone THEN ts[i]
        ELSE [ts[i] EXCEPT !.query_result.from = Reindex(@, closed)]]

\* The same for the query or the result the worker holds.
FollowedWorker(w, closed) ==
    IF w.pc = "query" THEN [w EXCEPT !.action.from = Reindex(@, closed)]
    ELSE IF w.pc = "send" THEN [w EXCEPT !.res.from = Reindex(@, closed)]
    ELSE w

\* (CONTROL, Char('w'))
delete_tab ==
    /\ Handling("Normal")
    /\ last' = NoMove
    /\ UNCHANGED <<client, input_mode>>
    /\ IF Len(tabs) = 1
       THEN /\ UNCHANGED <<selected_tab, panicked, queries>>
            /\ try_recv(tabs, result_rx)
       ELSE /\ selected_tab' = IF selected_tab = 0
                               THEN selected_tab + 1
                               ELSE selected_tab - 1
            /\ panicked' = draw_panics(remove(tabs, selected_tab), selected_tab')
            /\ action_rx' = Followed(action_rx, selected_tab)
            /\ worker' = FollowedWorker(worker, selected_tab)
            /\ try_recv(FollowedTabs(update_tabs(remove(tabs, selected_tab)),
                                     selected_tab),
                        Followed(result_rx, selected_tab))

\* Char('H')
previous_tab ==
    /\ Handling("Normal")
    /\ selected_tab' = IF selected_tab > 0 THEN selected_tab - 1 ELSE selected_tab
    /\ last' = NoMove
    /\ UNCHANGED <<client, queries, input_mode, panicked>>
    /\ try_recv(tabs, result_rx)

\* Char('L')
next_tab ==
    /\ Handling("Normal")
    /\ selected_tab' = IF selected_tab + 1 < Len(tabs)
                       THEN selected_tab + 1
                       ELSE selected_tab
    /\ last' = NoMove
    /\ UNCHANGED <<client, queries, input_mode, panicked>>
    /\ try_recv(tabs, result_rx)

\* Char('i') in normal mode
normal_i ==
    /\ Handling("Normal")
    /\ input_mode' = "Insert"
    /\ last' = NoMove
    /\ UNCHANGED <<client, queries, selected_tab, panicked>>
    /\ try_recv(tabs, result_rx)

\* Char('A') in normal mode
normal_A ==
    /\ Handling("Normal")
    /\ input_mode' = "Insert"
    /\ last' = NoMove
    /\ UNCHANGED <<client, queries, selected_tab, panicked>>
    /\ try_recv(IF char_index < Len(input) THEN WithCursor(Len(input)) ELSE tabs,
                result_rx)

\* Char('a') in normal mode
normal_a ==
    /\ Handling("Normal")
    /\ input_mode' = "Insert"
    /\ last' = NoMove
    /\ UNCHANGED <<client, queries, selected_tab, panicked>>
    /\ try_recv(IF char_index < Len(input) THEN WithCursor(char_index + 1) ELSE tabs,
                result_rx)

\* Char('0') in normal mode
normal_0 ==
    /\ Handling("Normal")
    /\ last' = NoMove
    /\ UNCHANGED <<client, queries, app>>
    /\ try_recv(WithCursor(0), result_rx)

\* Char('$') in normal mode: input.len() - 1. On an empty input the
\* subtraction overflows: a build with overflow checks panics, one without
\* wraps around.
normal_dollar ==
    /\ Handling("Normal")
    /\ last' = [op |-> "$", from |-> char_index]
    /\ UNCHANGED <<client, queries, input_mode, selected_tab>>
    /\ \E overflow_checks \in BOOLEAN :
         IF Len(input) = 0 /\ overflow_checks
         THEN /\ panicked' = TRUE
              /\ try_recv(tabs, result_rx)
         ELSE /\ UNCHANGED panicked
              /\ try_recv(WithCursor(wrapping_sub(Len(input), 1)), result_rx)

\* Char('x') in normal mode
delete_next_char ==
    /\ Handling("Normal")
    /\ last' = NoMove
    /\ UNCHANGED <<client, queries, app>>
    /\ try_recv(IF char_index < Len(input)
                THEN LET text == remove(input, char_index) IN
                     WithInput(text, IF char_index >= Len(text) /\ char_index > 0
                                     THEN char_index - 1
                                     ELSE char_index)
                ELSE tabs,
                result_rx)

\* Left, and Char('h') in normal mode
move_cursor_left ==
    /\ ~panicked
    /\ last' = NoMove
    /\ UNCHANGED <<client, queries, app>>
    /\ try_recv(IF input # <<>> /\ char_index > 0
                THEN WithCursor(char_index - 1)
                ELSE tabs,
                result_rx)

\* Right, and Char('l') in normal mode
move_cursor_right ==
    /\ ~panicked
    /\ last' = NoMove
    /\ UNCHANGED <<client, queries, app>>
    /\ try_recv(IF input # <<>> /\ char_index < Len(input) - 1
                THEN WithCursor(char_index + 1)
                ELSE tabs,
                result_rx)

\* Char('D') in normal mode
delete_input ==
    /\ Handling("Normal")
    /\ last' = NoMove
    /\ UNCHANGED <<client, queries, app>>
    /\ try_recv(WithInput(<<>>, 0), result_rx)

\* String::insert panics when idx is beyond the end.
append(c) ==
    /\ panicked' = (char_index > Len(input))
    /\ last' = NoMove
    /\ UNCHANGED <<client, queries, input_mode, selected_tab>>
    /\ try_recv(IF char_index > Len(input) THEN tabs
                ELSE WithInput(insert(input, char_index, c), char_index + 1),
                result_rx)

\* Char(c) in insert mode
append_char ==
    /\ Handling("Insert")
    /\ TotalLen(tabs) < MaxLen
    /\ \E c \in KeyChars : append(c)

\* Enter in insert mode
insert_enter ==
    /\ Handling("Insert")
    /\ TotalLen(tabs) < MaxLen
    /\ append("\n")

\* Backspace in insert mode. String::remove panics when idx is not inside.
delete_last_char ==
    /\ Handling("Insert")
    /\ panicked' = (char_index > 0 /\ char_index - 1 >= Len(input))
    /\ last' = NoMove
    /\ UNCHANGED <<client, queries, input_mode, selected_tab>>
    /\ try_recv(IF char_index > 0 /\ char_index - 1 < Len(input)
                THEN WithInput(remove(input, char_index - 1), char_index - 1)
                ELSE tabs,
                result_rx)

\* Esc in insert mode. A cursor that has wrapped around is followed for
\* MaxLen steps down.
insert_esc ==
    /\ Handling("Insert")
    /\ char_index <= Len(input) \/ char_index > USIZE_MAX - MaxLen
    /\ input_mode' = "Normal"
    /\ last' = NoMove
    /\ UNCHANGED <<client, queries, selected_tab, panicked>>
    /\ try_recv(IF char_index > 0 THEN WithCursor(char_index - 1) ELSE tabs,
                result_rx)

\* The run loop of the App, from the start of the program.
AppNext ==
    \/ new_tab
    \/ delete_tab
    \/ previous_tab
    \/ next_tab
    \/ normal_i
    \/ normal_A
    \/ normal_a
    \/ normal_0
    \/ normal_dollar
    \/ move_last
    \/ move_next
    \/ delete_next_char
    \/ move_cursor_left
    \/ move_cursor_right
    \/ delete_input
    \/ append_char
    \/ insert_enter
    \/ delete_last_char
    \/ insert_esc

AppSpec == Init /\ [][AppNext]_vars

\* ---------------------------------------------------------------- the queries
\* The statement get_tables sends, as one piece of text.
TablesQuery ==
    <<"SELECT name FROM sqlite_master WHERE type = 'table' AND name NOT LIKE 'sqlite_%'">>

\* Action::Query(query); from is history, the tab that was selected.
Query(query) == [query |-> query, from |-> Some(selected_tab)]

\* The queries on their way to the worker, in it, or back.
UnderWay ==
    Len(action_rx) + Len(result_rx) + (IF worker = Receiving THEN 0 ELSE 1)

\* (CONTROL, Char('r'))
submit_query ==
    /\ Handling("Normal")
    /\ UnderWay < MaxQueries
    /\ action_rx' = IF input = <<>> THEN action_rx
                    ELSE Append(action_rx, Query(input))
    /\ last' = NoMove
    /\ UNCHANGED <<client, worker, app>>
    /\ try_recv(tabs, result_rx)

\* (CONTROL, Char('t'))
get_tables ==
    /\ Handling("Normal")
    /\ UnderWay < MaxQueries
    /\ action_rx' = Append(action_rx, Query(TablesQuery))
    /\ last' = NoMove
    /\ UNCHANGED <<client, worker, app>>
    /\ try_recv(tabs, result_rx)

\* Char('c') in normal mode
clear_results ==
    /\ Handling("Normal")
    /\ last' = NoMove
    /\ UNCHANGED <<client, queries, app>>
    /\ try_recv([tabs EXCEPT ![selected_tab + 1].query_result = QueryNone],
                result_rx)

\* event::poll(timeout) returns false: a turn of the loop without a key,
\* followed by the top of the next one.
poll_timeout ==
    /\ ~panicked
    /\ UNCHANGED <<client, queries, app, last>>
    /\ try_recv(tabs, result_rx)

\* The spawned task: action_rx.recv().await yields an Action and the task
\* starts the query.
worker_recv ==
    /\ ~panicked
    /\ worker = Receiving
    /\ action_rx # <<>>
    /\ worker' = [pc |-> "query", action |-> Head(action_rx)]
    /\ action_rx' = Tail(action_rx)
    /\ UNCHANGED <<client, last, input_mode, tabs, selected_tab, panicked, result_rx>>

\* client.query_owned(&query).await completes: the database answers with a
\* table or an error, which becomes the QueryResult.
worker_query ==
    /\ ~panicked
    /\ worker.pc = "query"
    /\ \E kind \in {"Table", "Error"} :
         worker' = [pc |-> "send",
                    res |-> [kind |-> kind, from |-> worker.action.from]]
    /\ UNCHANGED <<client, last, input_mode, tabs, selected_tab, panicked,
                   action_rx, result_rx>>

\* result_tx.send(res), and the task is back at recv.
worker_send ==
    /\ ~panicked
    /\ worker.pc = "send"
    /\ result_rx' = Append(result_rx, worker.res)
    /\ worker' = Receiving
    /\ UNCHANGED <<client, last, input_mode, tabs, selected_tab, panicked, action_rx>>

\* The program after a one-character statement was typed into its tab
\* (i, the character, Esc): normal mode, the cursor on the character.
QueryInit ==
    /\ conn = "connecting"
    /\ request_id = INITIAL_REQUEST_ID
    /\ pending = <<>>
    /\ calls = <<NewCall("hello", HELLO_REQ_ID)>>
    /\ rx = <<Empty>>
    /\ writer = <<>>
    /\ listener = "running"
    /\ got = NoFrame
    /\ answered = FALSE
    /\ clock = 0
    /\ stamp = NoStamp
    /\ \E c \in KeyChars : tabs = <<[Tab(1) EXCEPT !.input = <<c>>]>>
    /\ last = NoMove
    /\ input_mode = "Normal"
    /\ selected_tab = 0
    /\ panicked = FALSE
    /\ action_rx = <<>>
    /\ result_rx = <<>>
    /\ worker = Receiving
    /\ undecoded = "none"

\* The App and the worker, with the keys that submit and that move between
\* tabs; every turn of the run loop ends with the drain of the next one.
QueryNext ==
    \/ new_tab
    \/ delete_tab
    \/ previous_tab
    \/ next_tab
    \/ submit_query
    \/ get_tables
    \/ clear_results
    \/ poll_timeout
    \/ worker_recv
    \/ worker_query
    \/ worker_send

QuerySpec == QueryInit /\ [][QueryNext]_vars

\* ------------------------------------------------------------------ claims
Ops == {"open_stream", "execute"}
CallIds == 1..Len(calls)

\* C1: an execute call resumes only with the reply whose request id is the id
\* its own request was sent under, whatever else is pending and in whatever
\* order the replies are read; the value it receives is that frame's payload.
C1_OwnReply ==
    \A c \in CallIds :
        (c = Cur /\ calls[c].kind = "execute" /\ rx[c].st = "sent") =>
            /\ got.kind = "Text"
            /\ (IF got.request_id.some THEN got.request_id.v ELSE 1) = calls[c].id
            /\ (got.ty = "response_ok" /\ got.response.some
                /\ got.response.v.type = "execute")
                 => rx[c].val = ExecuteResp(got.response.v.result)

\* An execute call has returned its result while the tx of an earlier execute
\* call, issued under another id, is still in the table: the later request was
\* answered first.
C1_Witness ==
    /\ calls[Cur].kind = "execute" /\ calls[Cur].pc = "done"
    /\ calls[Cur].out.tag = "Ok"
    /\ \E k \in DOMAIN pending :
         /\ k # calls[Cur].id
         /\ pending[k] < Cur
         /\ calls[pending[k]].kind = "execute"

\* C2: the slot of a call is in the table from the moment its request frame
\* is written: a call whose request is on the wire and whose rx is unresolved
\* has its tx stored under its id.
C2_SlotInsertedBeforeWrite ==
    (Outstanding /\ rx[Cur] = Empty) =>
        (calls[Cur].id \in DOMAIN pending /\ pending[calls[Cur].id] = Cur)

\* C3: once the running read loop has read a reply for the id of a call whose
\* request was written, the call does not stay suspended: it eventually
\* returns (a read loop that ends afterwards is not held against the claim).
C3_AnsweredCallResumes == answered ~> (~Outstanding \/ listener = "stopped")

\* C4: next_request_id never hands the handshake id 1 or the ping id -1 to an
\* open_stream or execute call.
C4_NeverReservedId ==
    \A c \in CallIds :
        calls[c].kind \in Ops => calls[c].id \notin {HELLO_REQ_ID, PING_REQ_ID}

\* C5: the ids next_request_id returns are strictly increasing in the order of
\* the increments, hence pairwise distinct, and the counter is ahead of all of
\* them, so an id still in the table is never handed out again.
C5_UniqueIncreasingIds ==
    /\ \A c, d \in CallIds :
         (c < d /\ calls[c].kind \in Ops /\ calls[d].kind \in Ops)
            => calls[c].id < calls[d].id
    /\ \A c \in CallIds : calls[c].kind \in Ops => calls[c].id < request_id

\* Two calls have drawn an id from the counter.
C5_Witness ==
    \E c, d \in CallIds :
        c < d /\ calls[c].kind \in Ops /\ calls[d].kind \in Ops

\* C6: an open_stream or execute frame is on the wire only after the hello
\* frame, and only once the handshake call has returned on a HelloOk.
C6_HandshakeGate ==
    \A i \in 1..Len(writer) :
        writer[i].kind \in Ops =>
            /\ i > 1 /\ writer[1].kind = "hello"
            /\ calls[1].pc = "done" /\ rx[1] = Sent(HelloOk)

\* An execute frame has been written.
C6_Witness ==
    \E i \in 1..Len(writer) : writer[i].kind = "execute"

\* C7: connect yields a client exactly when the handshake rx resolved with
\* HelloOk; a failed write, any other value, a dropped tx or a dropped future
\* make it fail.
C7_ConnectIffAck ==
    /\ conn = "ready" <=> (calls[1].pc = "done" /\ rx[1] = Sent(HelloOk))
    /\ (calls[1].pc \in {"done", "cancelled"} /\ rx[1] # Sent(HelloOk))
         => conn = "failed"

\* The server rejected the handshake and connect failed.
C7_Witness ==
    /\ conn = "failed"
    /\ calls[1].pc = "done"
    /\ rx[1].st = "sent" /\ rx[1].val.tag = "Error"

\* C8: a handshake rejected with a response_error carrying message m makes
\* connect fail with an error whose message is m.
C8_HandshakeErrorCarriesMessage ==
    (calls[1].pc = "done" /\ rx[1].st = "sent" /\ rx[1].val.tag = "Error")
        => calls[1].out = Err(rx[1].val.message)

\* C9: an execute call whose rx resolved with ExecuteResp{result} returns
\* exactly that result, and one whose rx resolved with Error{message} fails
\* with exactly that message.
C9_ExecuteOutcome ==
    \A c \in CallIds :
        (calls[c].kind = "execute" /\ calls[c].pc = "done" /\ rx[c].st = "sent") =>
            /\ rx[c].val.tag = "ExecuteResp" => calls[c].out = Ok(rx[c].val.result)
            /\ rx[c].val.tag = "Error" => calls[c].out = Err(rx[c].val.message)

\* An execute call has failed with the server's message.
C9_Witness ==
    \E c \in CallIds :
        /\ calls[c].kind = "execute" /\ calls[c].pc = "done"
        /\ rx[c] = Sent(Error("invalid token"))
        /\ calls[c].out = Err("invalid token")

\* Call c is an execute call that failed with a server-reported error.
QueryErrorOf(c) ==
    /\ calls[c].kind = "execute" /\ calls[c].pc = "done"
    /\ rx[c].st = "sent" /\ rx[c].val.tag = "Error"
    /\ calls[c].out.tag = "Err"

\* C10: a server-reported failure of an execute call leaves the connection
\* usable. The read loop step that delivers the error keeps the loop running
\* and removes the entry of that call only; the return of the failed call
\* leaves the client, the loop and the table as they are; and a later execute
\* call whose rx resolves with ExecuteResp{result} returns that result.
C10_UsableAfterQueryError ==
    [][ /\ (/\ Cur' = Cur /\ calls[Cur].kind = "execute"
            /\ rx[Cur] = Empty
            /\ rx'[Cur].st = "sent" /\ rx'[Cur].val.tag = "Error")
           => /\ listener' = "running"
              /\ pending' = [k \in DOMAIN pending \ {calls[Cur].id} |-> pending[k]]
        /\ (~QueryErrorOf(Cur) /\ QueryErrorOf(Cur)')
           => /\ conn' = "ready"
              /\ listener' = listener
              /\ pending' = pending
        /\ \A c, d \in 1..Len(calls') :
             (/\ c < d /\ QueryErrorOf(c)'
              /\ calls'[d].kind = "execute" /\ calls'[d].pc = "done"
              /\ rx'[d].st = "sent" /\ rx'[d].val.tag = "ExecuteResp")
             => calls'[d].out = Ok(rx'[d].val.result)
      ]_vars

\* An execute call failed with a server-reported error and the next execute
\* call on the same connection returned a result.
C10_Witness ==
    \E c, d \in CallIds :
        /\ c < d /\ QueryErrorOf(c)
        /\ calls[d].kind = "execute" /\ calls[d].pc = "done"
        /\ calls[d].out.tag = "Ok"

\* The request id the read loop takes from a text frame: 1 when it has none.
IdOf(text) == IF text.request_id.some THEN text.request_id.v ELSE 1

\* The table without the entry under k.
Without(f, k) == [x \in DOMAIN f \ {k} |-> f[x]]

\* A step that changes the table, a channel, a call or the read loop.
Touched == pending' # pending \/ rx' # rx \/ calls' # calls \/ listener' # listener

\* C11: when the read loop processes a response_error frame for id X, the
\* table loses the entry under X and nothing else, and no call other than the
\* owner of that entry is resolved or changes its position. (A step that
\* touches nothing has nothing to answer for.)
C11_ErrorResolvesOnlyItsEntry ==
    [][ Touched => \A text \in TextFrames :
          (text.json /\ text.ty = "response_error" /\ listener_text_frame(text))
          => /\ pending' = Without(pending, IdOf(text))
             /\ calls' = calls
             /\ \A c \in CallIds :
                  (IdOf(text) \notin DOMAIN pending \/ pending[IdOf(text)] # c)
                     => rx'[c] = rx[c]
      ]_vars

\* An execute call was failed by a response_error frame while the tx of
\* another call is still in the table.
C11_Witness ==
    /\ calls[Cur].kind = "execute"
    /\ got.kind = "Text" /\ got.ty = "response_error"
    /\ rx[Cur].st = "sent" /\ rx[Cur].val.tag = "Error"
    /\ \E k \in DOMAIN pending : pending[k] # Cur

\* C12: a well-formed reply whose request id has no entry in the table
\* changes neither the table nor any call, and the read loop keeps running.
C12_OrphanedReplyDropped ==
    [][ Touched => \A text \in TextFrames :
          (/\ IdOf(text) \notin DOMAIN pending
           /\ listener_text_frame(text)
           /\ from_str(text).tag = "Ok")
          => /\ pending' = pending
             /\ rx' = rx
             /\ calls' = calls
             /\ listener' = "running"
      ]_vars

\* A reply for the id of the last call was read before the call had an entry
\* in the table: the call has its entry now and still awaits, and the read
\* loop still runs.
C12_Witness ==
    /\ answered
    /\ calls[Cur].kind \in Ops
    /\ calls[Cur].pc = "await"
    /\ rx[Cur] = Empty
    /\ calls[Cur].id \in DOMAIN pending
    /\ listener = "running"

\* C13: if the read loop ends (Close frame or stream error) while a call
\* awaits its reply, the call is failed instead of awaiting forever.
C13_ListenerEndFailsSuspendedCalls ==
    (listener = "stopped" /\ calls[Cur].pc = "await")
        ~> (calls[Cur].pc # "await")

\* The tag each operation accepts as its success, and the error it returns
\* for any other value.
ExpectedTag(kind) ==
    CASE kind = "hello" -> "HelloOk"
      [] kind = "open_stream" -> "OpenStreamResp"
      [] kind = "ping" -> "Pong"
      [] kind = "execute" -> "ExecuteResp"
MismatchError(kind) ==
    CASE kind = "hello" -> UnexpectedHello
      [] kind = "open_stream" -> UnexpectedOpenStream
      [] kind = "ping" -> UnexpectedPing
      [] kind = "execute" -> UnexpectedExecute

\* C14: a call returns success only when its channel resolved with the tag the
\* operation expects; with any other tag it returns the operation's
\* mismatch error, except that execute turns an Error value into the error
\* carrying the server's message.
C14_SuccessOnlyOnExpectedTag ==
    \A c \in CallIds :
        calls[c].pc = "done" =>
            /\ calls[c].out.tag = "Ok" =>
                  (rx[c].st = "sent" /\ rx[c].val.tag = ExpectedTag(calls[c].kind))
            /\ (rx[c].st = "sent" /\ rx[c].val.tag # ExpectedTag(calls[c].kind)) =>
                  calls[c].out =
                     IF calls[c].kind = "execute" /\ rx[c].val.tag = "Error"
                     THEN Err(rx[c].val.message)
                     ELSE Err(MismatchError(calls[c].kind))

\* An open_stream call whose channel resolved with a value of another
\* operation has returned the mismatch error.
C14_Witness ==
    \E c \in CallIds :
        /\ calls[c].kind = "open_stream" /\ calls[c].pc = "done"
        /\ rx[c].st = "sent" /\ rx[c].val.tag \in {"HelloOk", "ExecuteResp", "Pong"}
        /\ calls[c].out = Err(UnexpectedOpenStream)

\* The same for a ping: a text frame carrying the ping's id resolved it with
\* a value that is not Pong.
C14_WitnessPing ==
    \E c \in CallIds :
        /\ calls[c].kind = "ping" /\ calls[c].pc = "done"
        /\ rx[c].st = "sent" /\ rx[c].val.tag # "Pong"
        /\ calls[c].out = Err(UnexpectedPing)

\* The calls whose tx is in the table.
InTable == {pending[k] : k \in DOMAIN pending}

\* C15: a call whose write failed has returned the transport error, its
\* request was not written a second time (the outbound half has taken that
\* request no more often than calls have made it, and no more frames than
\* there are calls), and the table holds no entry for it: no channel was
\* made for the call.
C15_FailedWriteLeavesNoTrace ==
    \A c \in CallIds :
        calls[c].out = Err(TransportError) =>
            /\ calls[c].pc = "done"
            /\ rx[c] = Empty
            /\ c \notin InTable
            /\ Cardinality({i \in 1..Len(writer) :
                               writer[i] = Request(calls[c])})
                  <= Cardinality({d \in CallIds :
                                    Request(calls[d]) = Request(calls[c])})
            /\ Len(writer) <= Len(calls)

\* The write of an execute call failed after the sink had taken the frame,
\* while an earlier request is on the wire.
C15_Witness ==
    \E c \in CallIds :
        /\ calls[c].kind = "execute"
        /\ calls[c].pc = "done" /\ calls[c].out = Err(TransportError)
        /\ Len(writer) >= 2
        /\ writer[Len(writer)] = Request(calls[c])

\* C16: the table holds at most one ping entry and it belongs to the ping
\* that inserted last: a ping waiting for its Pong owns the entry under -1,
\* and a ping whose tx was replaced by a later insert has no entry left, so
\* that no Pong can resolve it.
C16_LatestPingOwnsSlot ==
    /\ Cardinality({k \in DOMAIN pending : calls[pending[k]].kind = "ping"}) <= 1
    /\ \A c \in CallIds :
          calls[c].kind = "ping" =>
             /\ (calls[c].pc = "await" /\ rx[c] = Empty) =>
                   PING_REQ_ID \in DOMAIN pending
             /\ (calls[c].pc = "await" /\ PING_REQ_ID \in DOMAIN pending) =>
                   pending[PING_REQ_ID] = c
             /\ rx[c] = Dropped => c \notin InTable

\* A second ping replaced the entry of a first one, whose caller had given
\* up, and was resolved by the Pong that came next.
C16_Witness ==
    \E c, d \in CallIds :
        /\ c < d
        /\ calls[c].kind = "ping" /\ calls[c].pc = "cancelled" /\ rx[c] = Dropped
        /\ calls[d].kind = "ping" /\ calls[d].pc = "done"
        /\ rx[d] = Sent(Pong) /\ calls[d].out.tag = "Ok"

\* C17: a ping takes its start instant at the moment its frame is written,
\* and the duration it returns is never negative and never smaller than the
\* time from the write of the ping frame to the reading of the Pong.
C17_PingDurationFromSend ==
    (calls[Cur].kind = "ping" /\ calls[Cur].pc = "done" /\ calls[Cur].out.tag = "Ok")
        => /\ stamp.now = stamp.sent
           /\ calls[Cur].out.val >= 0
           /\ calls[Cur].out.val >= stamp.pong.v - stamp.sent.v

\* C18: the operations can be called concurrently: while an open_stream or
\* execute call awaits its reply, a second call can be issued on the same
\* connection.
C18_SecondCallWhileFirstAwaits ==
    (/\ calls[Cur].kind \in Ops
     /\ calls[Cur].pc = "await" /\ rx[Cur] = Empty
     /\ Cur < MaxCalls)
        => ENABLED execute_statement_begin

\* The frames the client writes.
RequestFrames ==
    {HelloMsg, PingMessage}
    \cup {OpenStreamReq(i) : i \in 1..MaxCalls}
    \cup {ExecuteReq(i) : i \in 1..MaxCalls}

\* C19: the writes are serialized. At most one call is under way, hence at
\* most one is at its write; what is on the wire is a sequence of whole
\* request frames, at most one per call, the frames of open_stream and
\* execute calls in the order of the calls.
C19_WritesSerialized ==
    /\ Cardinality({c \in CallIds : Live(c)}) <= 1
    /\ \A c \in CallIds : Live(c) => c = Cur
    /\ Len(writer) <= Len(calls)
    /\ \A i \in 1..Len(writer) : writer[i] \in RequestFrames
    /\ \A i, j \in 1..Len(writer) :
          (i < j /\ writer[i].kind \in Ops /\ writer[j].kind \in Ops)
             => writer[i].request_id < writer[j].request_id

\* The frames of two calls are on the wire, one after the other.
C19_Witness ==
    \E i, j \in 1..Len(writer) :
        i < j /\ writer[i].kind = "execute" /\ writer[j].kind = "open_stream"

\* The class of a character: a token is a maximal run of one class that is
\* not "space".
Class(c) ==
    IF is_whitespace(c) THEN "space"
    ELSE IF is_word_char(c) THEN "word"
    ELSE "other"

\* The index of the last character of the token that covers position i.
TokenEnd(chars, i) ==
    CHOOSE j \in i..(Len(chars) - 1) :
        /\ \A k \in i..j : Class(At(chars, k)) = Class(At(chars, i))
        /\ (j = Len(chars) - 1 \/ Class(At(chars, j + 1)) # Class(At(chars, i)))

\* The first characters of the tokens behind position j.
LaterTokens(chars, j) ==
    {k \in (j + 1)..(Len(chars) - 1) : Class(At(chars, k)) # "space"}

Min(S) == CHOOSE x \in S : \A y \in S : x <= y

\* C20: from a cursor on a non-whitespace character, move_next puts the
\* cursor on the first character of the next token behind the token under
\* the cursor, or on the last character of the input when there is no
\* later token; the cursor does not move backwards.
C20_MoveNextToNextToken ==
    (/\ last.op = "move_next"
     /\ last.from < Len(input)
     /\ Class(At(input, last.from)) # "space")
        => LET later == LaterTokens(input, TokenEnd(input, last.from)) IN
           /\ char_index = IF later # {} THEN Min(later) ELSE Len(input) - 1
           /\ char_index >= last.from

\* move_next went from a token over the whitespace behind it, which ends
\* with a newline, to the first character of the next token, which is not
\* the last character.
C20_Witness ==
    /\ last.op = "move_next"
    /\ last.from < Len(input)
    /\ Class(At(input, last.from)) = "word"
    /\ char_index > last.from + 1
    /\ char_index < Len(input) - 1
    /\ At(input, char_index - 1) = "\n"
    /\ Class(At(input, char_index)) = "other"

\* The first characters of the tokens that start before position p.
TokenStartsBefore(chars, p) ==
    {k \in 0..(p - 1) :
        /\ Class(At(chars, k)) # "space"
        /\ (k = 0 \/ Class(At(chars, k - 1)) # Class(At(chars, k)))}

Max(S) == CHOOSE x \in S : \A y \in S : x >= y

\* C21: from a cursor p with 0 < p <= len and a token starting before p,
\* move_last puts the cursor on the first character of the nearest token that
\* starts before p; the cursor does not move forward and ends on an index of
\* the input.
C21_MoveLastToTokenStart ==
    (/\ last.op = "move_last"
     /\ last.from > 0
     /\ TokenStartsBefore(input, last.from) # {})
        => /\ char_index = Max(TokenStartsBefore(input, last.from))
           /\ char_index <= last.from
           /\ char_index < Len(input)

\* move_last went back from behind the input over a newline to the first
\* character of a token of several characters that is not the first token.
C21_Witness ==
    /\ last.op = "move_last"
    /\ last.from = Len(input)
    /\ char_index >= 1
    /\ char_index < last.from - 2
    /\ At(input, last.from - 1) = "\n"
    /\ Class(At(input, char_index)) = "word"
    /\ Class(At(input, char_index - 1)) = "other"

\* C22: an entry is delivered at most once. A call whose channel was
\* resolved has no entry in the table any more, and no entry stands under
\* its request id again, so that a duplicate or late reply for that id finds
\* nothing and is dropped. (A Pong frame carries no id; the pings are left
\* out.)
C22_DeliveredAtMostOnce ==
    \A c \in CallIds :
        (rx[c].st = "sent" /\ calls[c].kind # "ping") =>
            /\ c \notin InTable
            /\ calls[c].id \notin DOMAIN pending

\* C23: a text frame that fails to decode is dropped without effect. The
\* step that reads it leaves the table, every channel, every call and the
\* outbound half as they were, and the read loop keeps running.
C23_UndecodableFrameDropped ==
    [][(undecoded' # undecoded /\ undecoded' # "none") =>
          /\ pending' = pending
          /\ rx' = rx
          /\ calls' = calls
          /\ conn' = conn
          /\ writer' = writer
          /\ listener' = "running"]_vars

\* An undecodable frame was read while a call awaits: the call still awaits,
\* its entry is still in the table and the loop is running.
C23_Witness ==
    /\ undecoded # "none"
    /\ calls[Cur].pc = "await"
    /\ rx[Cur] = Empty
    /\ Cur \in InTable
    /\ listener = "running"

\* C24: a frame whose response carries a type tag the enum does not know is
\* still processed: once the read loop has read such a frame with the id of
\* the awaiting call, the entry of that call is out of the table.
C24_UnknownTagStillProcessed ==
    undecoded = "reply" => Cur \notin InTable

\* C25: whenever the read loop removes the entry of an awaiting call, the
\* call resumes. An awaiting call whose entry is out of the table has its
\* channel resolved, with a value or by the drop of the tx, and its next step
\* is enabled; a call whose tx was dropped returns the failure of the
\* channel, a call that was sent a value returns what it makes of it.
C25_RemovalResumesCaller ==
    \A c \in CallIds :
        /\ (c = Cur /\ calls[c].pc = "await" /\ c \notin InTable) =>
               /\ rx[c] # Empty
               /\ ENABLED (send_hello_await \/ open_stream_await
                              \/ execute_statement_await \/ send_ping_await)
        /\ (calls[c].pc = "done" /\ rx[c] = Dropped) =>
               calls[c].out = Err(Canceled)
        /\ (calls[c].pc = "done" /\ rx[c].st = "sent") =>
               calls[c].out \notin {[tag |-> "Running"], Err(Canceled)}

\* A reply that gave nothing to deliver was read for the awaiting call, and
\* the call has returned the failure of its channel.
C25_Witness ==
    /\ calls[Cur].pc = "done"
    /\ rx[Cur] = Dropped
    /\ calls[Cur].out = Err(Canceled)
    /\ got.kind = "Text"
    /\ got.ty \in {"response_ok", "response_error"}
    /\ ~got.response.some
    /\ ~got.error.some

\* C26: a text frame with no request id is taken for id 1, and id 1 belongs
\* to the handshake alone: a call whose channel was resolved by a frame
\* without request id is the handshake, never an open_stream or an
\* execute_statement.
C26_IdlessFrameResolvesOnlyHandshake ==
    \A c \in CallIds :
        (/\ c = Cur
         /\ rx[c] # Empty
         /\ got.kind = "Text"
         /\ ~got.request_id.some) =>
            calls[c].kind = "hello"

\* C27: a Pong control frame removes the entry under -1 and resolves it with
\* Pong, and touches nothing else: every other entry stays, no other channel
\* changes, no call moves, and the read loop keeps running. With no entry
\* under -1 the table and the channels are as they were.
C27_PongResolvesOnlyPing ==
    [][listener_pong =>
          /\ pending' = Without(pending, PING_REQ_ID)
          /\ calls' = calls
          /\ listener' = "running"
          /\ \A c \in CallIds :
                rx'[c] # rx[c] =>
                    /\ PING_REQ_ID \in DOMAIN pending
                    /\ c = pending[PING_REQ_ID]
                    /\ rx'[c] = Sent(Pong)]_vars

\* A ping was resolved by a Pong frame while the entry of an earlier call
\* was in the table, and that entry is still there.
C27_Witness ==
    /\ calls[Cur].kind = "ping"
    /\ got = PongFrame
    /\ rx[Cur] = Sent(Pong)
    /\ PING_REQ_ID \notin DOMAIN pending
    /\ pending # <<>>

\* C28: a call dropped while it awaits leaves its entry behind, and a later
\* reply for its id is consumed without a delivery. The step that cancels a
\* call writes nothing to the server and touches neither table nor channels;
\* the step that takes the entry of a cancelled call out of the table changes
\* no channel and no call, writes nothing, and leaves the read loop as it is.
C28_ReplyAfterCancelConsumed ==
    [][/\ (calls' # calls /\ Len(calls') = Len(calls)
            /\ calls'[Cur].pc = "cancelled") =>
               /\ writer' = writer
               /\ pending' = pending
               /\ rx' = rx
               /\ listener' = listener
       /\ (DOMAIN pending' # DOMAIN pending) =>
            \A k \in DOMAIN pending \ DOMAIN pending' :
               calls[pending[k]].pc = "cancelled" =>
                  /\ pending' = Without(pending, k)
                  /\ rx' = rx
                  /\ calls' = calls
                  /\ writer' = writer
                  /\ listener' = listener]_vars

\* A ping was cancelled after its tx was inserted (it had taken its now); a
\* reply has since taken the entry out of the table, the channel was never
\* resolved and the read loop is running.
C28_Witness ==
    /\ calls[Cur].kind = "ping"
    /\ calls[Cur].pc = "cancelled"
    /\ stamp.now.some
    /\ rx[Cur] = Empty
    /\ PING_REQ_ID \notin DOMAIN pending
    /\ listener = "running"

\* C29: the tab list is never empty and selected_tab is the index of one of
\* its tabs, after any sequence of new_tab, delete_tab, next_tab and
\* previous_tab from the single tab the program starts with.
C29_SelectedTabValid ==
    /\ Len(tabs) >= 1
    /\ selected_tab < Len(tabs)

\* C30: in every tab the cursor is within 0..len of its input after any
\* sequence of key events, and no handler computes an index below zero.
C30_CursorWithinInput ==
    /\ \A i \in 1..Len(tabs) :
          /\ tabs[i].char_index >= 0
          /\ tabs[i].char_index <= Len(tabs[i].input)
    /\ ~(panicked /\ last.op = "$")

\* C31: the result of a query is stored in the tab the query was submitted
\* from: a result held by a tab came from that tab, whatever keys were
\* handled between the submission and the arrival of the result.
C31_ResultInSubmittingTab ==
    \A i \in 1..Len(tabs) :
        tabs[i].query_result # QueryNone =>
            tabs[i].query_result.from = Some(i - 1)
====
